---------------------------- MODULE Spec2Model ----------------------------
(***************************************************************************)
(* The Cirrus CI trigger / poll / download scripts of the repository:      *)
(*   scripts/cirrus/release.py  (script = "release")                       *)
(*   scripts/cirrus/build.py    (script = "build")                         *)
(* Each is one sequential process.  A step of the model is the code        *)
(* between two points where the process talks to the remote system: one    *)
(* remote request (or one group of sleeps) together with everything the    *)
(* code does with its outcome.  The remote system is the environment: the  *)
(* outcome of every request is drawn from the outcomes the code            *)
(* distinguishes.                                                          *)
(*                                                                         *)
(* Python values: an Optional value is None (the empty tuple) or Some(x)   *)
(* (a one-element tuple); a str is a tuple of one-character strings, so    *)
(* that startswith and lower are computed, not assumed.                    *)
(***************************************************************************)
EXTENDS Integers, Sequences, FiniteSets, TLC

(***************************************************************************)
(* Bounds of the model (not program constants).                            *)
(***************************************************************************)
\* Resolution of the clock: ticks per whole second.
TicksPerSec == 2
\* A remote request takes between 1 and MaxNetTicks ticks.
MaxNetTicks == 2
\* The remote system reports at most MaxTasks task ids for a build.
MaxTasks == 2

(***************************************************************************)
(* Python values.                                                          *)
(***************************************************************************)
None == <<>>
Some(x) == <<x>>
Val(o) == o[1]

Min(a, b) == IF a <= b THEN a ELSE b

UpperChars == <<"A","B","C","D","E","F","G","H","I","J","K","L","M",
                "N","O","P","Q","R","S","T","U","V","W","X","Y","Z">>
LowerChars == <<"a","b","c","d","e","f","g","h","i","j","k","l","m",
                "n","o","p","q","r","s","t","u","v","w","x","y","z">>

\* The lower-case letter of every upper-case letter.
LowerOf ==
    [c \in {UpperChars[k] : k \in 1..Len(UpperChars)} |->
        LowerChars[CHOOSE k \in 1..Len(UpperChars) : UpperChars[k] = c]]

\* str.lower() on one character: other characters stay as they are.
LowerChar(c) == IF c \in DOMAIN LowerOf THEN LowerOf[c] ELSE c

\* str.lower()
Lower(s) == [k \in 1..Len(s) |-> LowerChar(s[k])]

\* str.startswith(prefix)
StartsWith(s, prefix) ==
    /\ Len(s) >= Len(prefix)
    /\ SubSeq(s, 1, Len(prefix)) = prefix

(***************************************************************************)
(* Status strings the remote system may report.                            *)
(***************************************************************************)
S_COMPLETED == <<"C","O","M","P","L","E","T","E","D">>
S_COMPLETE  == <<"C","O","M","P","L","E","T","E">>
S_COMPLET   == <<"C","O","M","P","L","E","T">>
S_completed == <<"c","o","m","p","l","e","t","e","d">>
S_ABORTED   == <<"A","B","O","R","T","E","D">>
S_ABORTEDX  == <<"A","B","O","R","T","E","D","X">>
S_aborted   == <<"a","b","o","r","t","e","d">>
S_FAILED    == <<"F","A","I","L","E","D">>
S_Failing   == <<"F","a","i","l","i","n","g">>
S_EXECUTING == <<"E","X","E","C","U","T","I","N","G">>
S_PENDING   == <<"P","E","N","D","I","N","G">>

Statuses == { S_COMPLETED, S_COMPLETE, S_COMPLET, S_completed, S_ABORTED,
              S_ABORTEDX, S_aborted, S_FAILED, S_Failing, S_EXECUTING,
              S_PENDING }

(***************************************************************************)
(* Program constants.                                                      *)
(***************************************************************************)
\* TASKS: (task alias, file name) pairs, in list order.
TASKS ==
    [release |-> << <<"linux_2_17_build", "bottom_x86_64-unknown-linux-gnu-2-17.tar.gz">> >>,
     build   |-> << <<"freebsd_13_2_build", "bottom_x86_64-unknown-freebsd-13-2.tar.gz">>,
                    <<"freebsd_14_0_build", "bottom_x86_64-unknown-freebsd-14-0.tar.gz">>,
                    <<"linux_2_17_build", "bottom_x86_64-unknown-linux-gnu-2-17.tar.gz">> >>,
     deploy  |-> << <<"freebsd_build", "bottom_x86_64-unknown-freebsd.tar.gz">>,
                    <<"macos_build", "bottom_aarch64-apple-darwin.tar.gz">> >>]

\* Mutant: the bound the comment above the loop names ("up to three times").
MAX_ATTEMPTS_Three == 3
MAX_ATTEMPTS == 5
SLEEP_MINUTES == 4
MINUTES == 10
SLEEP_SEC == 30
\* int(MINUTES * (60 / SLEEP_SEC))
TRIES == (MINUTES * 60) \div SLEEP_SEC
\* Mutant: five rounds for each minute of the nap.
NAP_ROUNDS_FivePerMinute == SLEEP_MINUTES * 5
\* range(SLEEP_MINUTES * 6) iterations of sleep(10) in release.py
NAP_ROUNDS == SLEEP_MINUTES * 6
\* Mutant: the cooldown is as long as the interval between two polls.
COOLDOWN_SEC_AsInterval == 30
\* sleep(60) after an exception in the polling loop
COOLDOWN_SEC == 60
\* sleep(5) before the download
PRE_DOWNLOAD_SEC == 5
\* sleep(10) in each round of the nap of release.py
NAP_ROUND_SEC == 10
\* exit(2) when no attempt succeeded
EXIT_FAILURE == 2
\* the exit status of a Python process ended by an uncaught exception
EXIT_UNCAUGHT == 1
\* the exit status of a Python process whose main() returns
EXIT_OK == 0
\* sys.argv[1] and the default of sys.argv[3]
branch == "main"
build_type == "build"

(***************************************************************************)
(* State.                                                                  *)
(***************************************************************************)
VARIABLES
    script,        \* which script runs: "release" or "build"
    pc,            \* position of the process in main()
    i,             \* index of the outer loop, for i in range(MAX_ATTEMPTS)
    attempt,       \* index of the polling loop, for attempt in range(TRIES)
    nap,           \* rounds of the nap loop done (release.py)
    dl,            \* entries of TASKS already fetched by the running try_download
    build_id,      \* Optional build id: sys.argv[4], then the created build's
    success,
    tasks,         \* Optional list of task ids (release.py)
    mutation_id,   \* Optional mutation id
    exit_status,   \* Optional exit status of the process
    now,           \* the clock: [sec, tick]
    \* History of the run (what the claims speak about).
    lastCall,      \* the most recent remote request and its outcome
    slept,         \* seconds slept since that request returned
    statusQueries, \* status queries sent for the build handle being polled
    createCount,   \* create-build mutations sent
    fetchStarted,  \* some artifact fetch was started
    sentIds,       \* mutation ids sent with a create-build mutation
    recorded,      \* the task list at the end of the previous attempt, kept
                   \* until the next create-build mutation is sent
    abortCalls,    \* batch-abort calls sent since the latest create-build mutation
    abortIds,      \* Optional task ids of the latest of these calls
    attemptsBegun, \* attempts started
    listedEnds,    \* attempts ended by continue, break or poll exhaustion
    sawComplete,   \* some status query returned a status starting with COMPLETE
    fetchFailed,   \* some artifact fetch raised
    fetchedAll,    \* a try_download fetched every entry of TASKS
    bailed,        \* the latest attempt ended on ABORTED or a fail status, and
                   \* no create-build mutation was sent since
    quiet,         \* the sleeps since the latest create-build response, up to
                   \* the first status query: how many, and their seconds
    fetched,       \* the URLs fetched in the run, in order, kept as long as
                   \* every fetch succeeded
    \* The scripts that work on files (validator.py, packager.py).
    args,          \* the parsed command line
    fs,            \* the file system: the content of each file the script names
    fs0,           \* the file system when the script started
    locals         \* the local variables of the script

progVars == <<script, pc, i, attempt, nap, dl, build_id, success, tasks,
              mutation_id, exit_status, now>>
histVars == <<lastCall, slept, statusQueries, createCount, fetchStarted, sentIds,
              recorded, abortCalls, abortIds, attemptsBegun, listedEnds,
              sawComplete, fetchFailed, fetchedAll, bailed, quiet, fetched>>
fileVars == <<args, fs, fs0, locals>>
vars == <<progVars, histVars, fileVars>>

Scripts == {"release", "build"}
\* The build id given as sys.argv[4] when the caller resumes a build.
ArgBuildId == <<"build", 0>>
\* The id the remote system gives the n-th build it creates.
RemoteBuildId(n) == <<"build", n>>
\* The ids of the first k tasks of the n-th build.
RemoteTaskIds(n, k) == [j \in 1..k |-> <<"task", n, j>>]

NetTicks == 1..MaxNetTicks

(***************************************************************************)
(* The clock.  The program reads it only as int(time()) when it makes a    *)
(* mutation id, and mutation ids are only compared for equality.  The      *)
(* clock is kept exactly up to the first whole second after the last read  *)
(* (ref); every later second is represented by that one, which keeps the   *)
(* order and the equality of all readings.                                 *)
(***************************************************************************)
Elapse(t, ticks, ref) ==
    LET total == t.tick + ticks
    IN  [sec  |-> Min(t.sec + (total \div TicksPerSec), ref + 1),
         tick |-> total % TicksPerSec]

\* int(time())
IntTime(t) == t.sec

\* The second of the last reading of the clock.
LastRead == IF mutation_id = None THEN 0 ELSE Val(mutation_id)[3]

\* sleep(secs)
Sleep(t, secs) == Elapse(t, secs * TicksPerSec, LastRead)

\* "Cirrus CI Build {}-{}-{}".format(build_type, branch, int(time()))
MakeMutationId(t) == <<build_type, branch, IntTime(t)>>

\* Python truthiness of an Optional list / Optional str.
Truthy(o) == o # None /\ Val(o) # <<>>

\* Mutant: the file name and the task name change places.
DlUrl_FileBeforeTask(b, task, file) ==
    <<"https://api.cirrus-ci.com/v1/artifact/build/", b, "/", file, "/binaries/", task>>

\* DL_URL_TEMPLATE % (build_id, task, file)
DlUrl(b, task, file) ==
    <<"https://api.cirrus-ci.com/v1/artifact/build/", b, "/", task, "/binaries/", file>>

\* No sleep yet, and one more sleep of secs seconds.
NoSleep == [n |-> 0, secs |-> 0]
OneMoreSleep(q, secs) == [n |-> q.n + 1, secs |-> q.secs + secs]

\* The Cirrus scripts read and write no file the model follows.
NoFileState ==
    /\ args = <<>>
    /\ fs = <<>>
    /\ fs0 = <<>>
    /\ locals = <<>>

Call(op, b, kind, val) == [op |-> op, build |-> b, kind |-> kind, val |-> val]
NoCall == Call("none", None, "none", <<>>)

Init ==
    /\ script \in Scripts
    /\ pc = "start"
    /\ i = 0
    /\ attempt = 0
    /\ nap = 0
    /\ dl = 0
    /\ build_id \in {None, Some(ArgBuildId)}
    /\ success = FALSE
    /\ tasks = Some(<<>>)
    /\ mutation_id = None
    /\ exit_status = None
    /\ now \in [sec : {0}, tick : 0..(TicksPerSec - 1)]
    /\ lastCall = NoCall
    /\ slept = 0
    /\ statusQueries = 0
    /\ createCount = 0
    /\ fetchStarted = FALSE
    /\ sentIds = {}
    /\ recorded = None
    /\ abortCalls = 0
    /\ abortIds = None
    /\ attemptsBegun = 0
    /\ listedEnds = 0
    /\ sawComplete = FALSE
    /\ fetchFailed = FALSE
    /\ fetchedAll = FALSE
    /\ bailed = FALSE
    /\ quiet = NoSleep
    /\ fetched = <<>>
    /\ NoFileState

(***************************************************************************)
(* The decisions of main().                                                *)
(***************************************************************************)
\* Mutant: the prefix is matched without regard to case.
IsComplete_AnyCase(s) == StartsWith(Lower(s), Lower(S_COMPLETE))

\* status.startswith("COMPLETE")
IsComplete(s) == StartsWith(s, S_COMPLETE)

\* status == "ABORTED"
IsAborted(s) == s = S_ABORTED

\* Mutant: the status is not lower-cased before the match.
IsFailed_CaseSensitive(s) == StartsWith(s, <<"f","a","i","l">>)

\* status.lower().startswith("fail")
IsFailed(s) == StartsWith(Lower(s), <<"f","a","i","l">>)

\* The if / elif chain of the polling loop on a returned status string.
PollReaction(s) ==
    IF IsComplete(s) THEN "download"
    ELSE IF IsAborted(s) THEN "bail"
    ELSE IF IsFailed(s) THEN "bail"
    ELSE "pending"

\* Mutant: the previous tasks are only stopped from the third attempt on.
StopGuard_SkipSecond ==
    script = "release" /\ Truthy(tasks) /\ mutation_id # None /\ i > 1

\* if tasks and mutation_id:   (release.py only)
StopGuard == script = "release" /\ Truthy(tasks) /\ mutation_id # None

\* The task ids handed to stop_build_tasks.
StopArg == Val(tasks)

\* Mutant: the loop stays on its slot after a status that is not terminal.
NextSlot_SameSlot(a) == a

\* for attempt in range(TRIES): the slot after an iteration that ended
\* normally.
NextSlot(a) == a + 1

\* Mutant: an exception does not use up its poll slot.
SlotAfterException_SameSlot(a) == a

\* for attempt in range(TRIES): the slot after an iteration that ended in
\* the except clause.
SlotAfterException(a) == a + 1

\* Mutant: the KeyError on data.createBuild.build.id is not caught.
SubmitReaction_KeyErrorUncaught(r) ==
    CASE r = "raise"  -> "crash"
      [] r = "errors" -> "continue"
      [] r = "nokey"  -> "crash"
      [] r = "ok"     -> "nap"

\* What main() does with the outcome of the create-build request.  The code
\* tells four outcomes apart: "raise", any exception but KeyError (urlopen
\* or json.load raising, or a TypeError on a null inside the path), is not
\* caught; an errors field ("errors") and a KeyError on
\* data.createBuild.build.id ("nokey") both continue the outer loop; "ok"
\* goes on to the nap.
SubmitReaction(r) ==
    CASE r = "raise"  -> "crash"
      [] r = "errors" -> "continue"
      [] r = "nokey"  -> "continue"
      [] r = "ok"     -> "nap"

\* Mutant: the task ids of the previous attempt are kept.
FreshTasks_NotCleared == tasks

\* tasks = []   (before each create-build request)
FreshTasks == Some(<<>>)

\* Mutant: the loop is not left while there are tasks to stop.
LoopDone_StopFirst == (i = MAX_ATTEMPTS \/ success) /\ ~StopGuard

\* Mutant: the outer loop does not look at success.
LoopDone_IgnoreSuccess == i = MAX_ATTEMPTS

\* for i in range(MAX_ATTEMPTS) has run out, or `if success: break`.
LoopDone == i = MAX_ATTEMPTS \/ success

\* Mutant: a build id already known is kept.
CreatedBuildId_KeepOld(old, id) == IF old = None THEN Some(id) ELSE old

\* build_id = response["data"]["createBuild"]["build"]["id"]
CreatedBuildId(old, id) == Some(id)

\* Mutant: a try_download goes on after the entries an earlier one fetched.
TryDownloadFrom_Resume(k) == k

\* for task, file in TASKS: the number of entries of TASKS a try_download
\* skips, k being what an earlier try_download fetched: it starts over.
TryDownloadFrom(k) == 0

\* An uncaught exception ends the process.
Crash ==
    /\ pc' = "exited"
    /\ exit_status' = Some(EXIT_UNCAUGHT)

\* The end of an iteration of the outer loop (continue, break, or the end
\* of the body); t is the value of tasks at that point.
EndAttempt(t, listed) ==
    /\ pc' = "loop"
    /\ i' = i + 1
    /\ attempt' = 0
    /\ nap' = 0
    /\ dl' = 0
    /\ recorded' = t
    /\ listedEnds' = IF listed THEN listedEnds + 1 ELSE listedEnds

(***************************************************************************)
(* main(): arguments and the choice between resuming and submitting.       *)
(***************************************************************************)
Start ==
    /\ pc = "start"
    /\ pc' = IF build_id # None THEN "resume" ELSE "loop"
    /\ success' = FALSE
    /\ tasks' = Some(<<>>)
    /\ mutation_id' = None
    /\ UNCHANGED <<script, i, attempt, nap, dl, build_id, exit_status, now>>
    /\ UNCHANGED histVars
    /\ UNCHANGED fileVars

(***************************************************************************)
(* Resuming: one status query of the given build.                          *)
(***************************************************************************)
ResumeCheck ==
    /\ pc = "resume"
    /\ \E d \in NetTicks, kind \in {"raise", "none", "str"} :
       \E s \in IF kind = "str" THEN Statuses ELSE {<<>>} :
          /\ now' = Elapse(now, d, LastRead)
          /\ lastCall' = Call("status", build_id, kind, s)
          /\ slept' = 0
          /\ statusQueries' = statusQueries + 1
          /\ sawComplete' = (sawComplete \/ (kind = "str" /\ StartsWith(s, S_COMPLETE)))
          /\ IF kind # "str"
             THEN Crash     \* check_build_status raised, or None.startswith
             ELSE IF IsComplete(s)
                  THEN pc' = "resume_dl" /\ exit_status' = exit_status
                  ELSE pc' = "exited" /\ exit_status' = Some(EXIT_OK)
    /\ dl' = 0
    /\ UNCHANGED <<script, i, attempt, nap, build_id, success, tasks, mutation_id>>
    /\ UNCHANGED <<createCount, fetchStarted, sentIds, recorded, abortCalls,
                   abortIds, attemptsBegun, listedEnds, fetchFailed, fetchedAll,
                   bailed, quiet, fetched>>
    /\ UNCHANGED fileVars

\* One iteration of try_download: urlretrieve of entry dl + 1 of TASKS.
FetchCall(d, ok) ==
    /\ fetchStarted' = TRUE
    /\ lastCall' = Call("fetch", build_id, IF ok THEN "ok" ELSE "raise",
                        TASKS[script][dl + 1])
    /\ fetchFailed' = (fetchFailed \/ ~ok)
    /\ fetched' = IF fetchFailed \/ ~ok
                  THEN <<>>
                  ELSE Append(fetched, DlUrl(Val(build_id), TASKS[script][dl + 1][1],
                                             TASKS[script][dl + 1][2]))
    /\ fetchedAll' = (fetchedAll \/ (ok /\ dl + 1 = Len(TASKS[script])))

ResumeFetch ==
    /\ pc = "resume_dl"
    /\ \E d \in NetTicks, ok \in BOOLEAN :
          /\ FetchCall(d, ok)
          /\ now' = Elapse(now, d, LastRead)
          /\ slept' = 0
          /\ IF ~ok
             THEN Crash /\ dl' = dl
             ELSE IF dl + 1 < Len(TASKS[script])
                  THEN dl' = dl + 1 /\ UNCHANGED <<pc, exit_status>>
                  ELSE dl' = 0 /\ pc' = "exited" /\ exit_status' = Some(EXIT_OK)
    /\ UNCHANGED <<script, i, attempt, nap, build_id, success, tasks, mutation_id>>
    /\ UNCHANGED <<statusQueries, createCount, sentIds, recorded, abortCalls,
                   abortIds, attemptsBegun, listedEnds, sawComplete, bailed, quiet>>
    /\ UNCHANGED fileVars

(***************************************************************************)
(* The outer loop.                                                         *)
(***************************************************************************)
LoopHead ==
    /\ pc = "loop"
    /\ IF LoopDone
       THEN /\ pc' = "after"
            /\ UNCHANGED <<attemptsBegun, statusQueries>>
       ELSE /\ pc' = IF StopGuard THEN "stop" ELSE "submit"
            /\ attemptsBegun' = attemptsBegun + 1
            /\ statusQueries' = 0
    /\ UNCHANGED <<script, i, attempt, nap, dl, build_id, success, tasks,
                   mutation_id, exit_status, now>>
    /\ UNCHANGED <<lastCall, slept, createCount, fetchStarted, sentIds, recorded,
                   abortCalls, abortIds, listedEnds, sawComplete, fetchFailed,
                   fetchedAll, bailed, quiet, fetched>>
    /\ UNCHANGED fileVars

\* stop_build_tasks(key, tasks, mutation_id): True, False, or an exception
\* (transport, or a response without data.batchAbort.tasks).
StopTasks ==
    /\ pc = "stop"
    /\ \E d \in NetTicks, r \in {"all", "fewer", "raise"} :
          /\ now' = Elapse(now, d, LastRead)
          /\ lastCall' = Call("abort", build_id, r, StopArg)
          /\ slept' = 0
          /\ abortCalls' = abortCalls + 1
          /\ abortIds' = Some(StopArg)
          /\ IF r = "raise"
             THEN Crash
             ELSE pc' = "submit" /\ exit_status' = exit_status
    /\ UNCHANGED <<script, i, attempt, nap, dl, build_id, success, tasks, mutation_id>>
    /\ UNCHANGED <<statusQueries, createCount, fetchStarted, sentIds, recorded,
                   attemptsBegun, listedEnds, sawComplete, fetchFailed, fetchedAll,
                   bailed, quiet, fetched>>
    /\ UNCHANGED fileVars

\* tasks = []; the new mutation id; the create-build request and its response.
Submit ==
    /\ pc = "submit"
    /\ \E d \in NetTicks, r \in {"raise", "errors", "nokey", "ok"} :
          /\ tasks' = FreshTasks
          /\ mutation_id' = Some(MakeMutationId(now))
          /\ now' = Elapse(now, d, IntTime(now))
          /\ createCount' = createCount + 1
          /\ sentIds' = sentIds \cup {MakeMutationId(now)}
          /\ lastCall' = Call("create", None, r, MakeMutationId(now))
          /\ slept' = 0
          /\ abortCalls' = 0
          /\ abortIds' = None
          /\ bailed' = FALSE
          /\ quiet' = NoSleep
          /\ CASE SubmitReaction(r) = "crash" ->
                    /\ Crash
                    /\ recorded' = None
                    /\ UNCHANGED <<i, attempt, nap, dl, build_id, listedEnds>>
               [] SubmitReaction(r) = "continue" ->
                    /\ EndAttempt(Some(<<>>), TRUE)
                    /\ UNCHANGED <<build_id, exit_status>>
               [] SubmitReaction(r) = "nap" ->
                    /\ build_id' = CreatedBuildId(build_id, RemoteBuildId(createCount + 1))
                    /\ pc' = "nap"
                    /\ nap' = 0
                    /\ recorded' = None
                    /\ UNCHANGED <<i, attempt, dl, exit_status, listedEnds>>
    /\ UNCHANGED <<script, success>>
    /\ UNCHANGED <<statusQueries, fetchStarted, attemptsBegun, sawComplete,
                   fetchFailed, fetchedAll, fetched>>
    /\ UNCHANGED fileVars

(***************************************************************************)
(* The nap after a submission.                                             *)
(***************************************************************************)
\* release.py: one round of the nap loop: sleep(10), then check_build_tasks
\* while no task ids are known.
NapRound ==
    /\ pc = "nap"
    /\ script = "release"
    /\ IF Truthy(tasks)
       THEN /\ now' = Sleep(now, NAP_ROUND_SEC)
            /\ slept' = slept + NAP_ROUND_SEC
            /\ UNCHANGED <<tasks, lastCall, exit_status>>
            /\ IF nap + 1 < NAP_ROUNDS
               THEN nap' = nap + 1 /\ pc' = pc
               ELSE nap' = 0 /\ pc' = "poll"
       ELSE \E d \in NetTicks, kind \in {"raise", "none", "list"} :
            \E k \in IF kind = "list" THEN 0..MaxTasks ELSE {0} :
               /\ now' = Elapse(Sleep(now, NAP_ROUND_SEC), d, LastRead)
               /\ lastCall' = Call("tasks", build_id, kind,
                                   RemoteTaskIds(Val(build_id)[2], k))
               /\ slept' = 0
               /\ IF kind = "raise"
                  THEN Crash /\ UNCHANGED <<tasks, nap>>
                  ELSE /\ tasks' = IF kind = "none" THEN None
                                   ELSE Some(RemoteTaskIds(Val(build_id)[2], k))
                       /\ exit_status' = exit_status
                       /\ IF nap + 1 < NAP_ROUNDS
                          THEN nap' = nap + 1 /\ pc' = pc
                          ELSE nap' = 0 /\ pc' = "poll"
    /\ attempt' = 0
    /\ quiet' = OneMoreSleep(quiet, NAP_ROUND_SEC)
    /\ UNCHANGED <<script, i, dl, build_id, success, mutation_id>>
    /\ UNCHANGED <<statusQueries, createCount, fetchStarted, sentIds, recorded,
                   abortCalls, abortIds, attemptsBegun, listedEnds, sawComplete,
                   fetchFailed, fetchedAll, bailed, fetched>>
    /\ UNCHANGED fileVars

\* build.py: sleep(60 * SLEEP_MINUTES), no request.
NapBuild ==
    /\ pc = "nap"
    /\ script = "build"
    /\ now' = Sleep(now, 60 * SLEEP_MINUTES)
    /\ slept' = slept + 60 * SLEEP_MINUTES
    /\ quiet' = OneMoreSleep(quiet, 60 * SLEEP_MINUTES)
    /\ pc' = "poll"
    /\ attempt' = 0
    /\ UNCHANGED <<script, i, nap, dl, build_id, success, tasks, mutation_id,
                   exit_status>>
    /\ UNCHANGED <<lastCall, statusQueries, createCount, fetchStarted, sentIds,
                   recorded, abortCalls, abortIds, attemptsBegun, listedEnds,
                   sawComplete, fetchFailed, fetchedAll, bailed, fetched>>
    /\ UNCHANGED fileVars

(***************************************************************************)
(* The polling loop.                                                       *)
(***************************************************************************)
\* for attempt in range(TRIES) ran out: the else clause of the loop.
PollExhausted ==
    /\ pc = "poll"
    /\ attempt >= TRIES
    /\ EndAttempt(tasks, TRUE)
    /\ UNCHANGED <<script, build_id, success, tasks, mutation_id, exit_status, now>>
    /\ UNCHANGED <<lastCall, slept, statusQueries, createCount, fetchStarted,
                   sentIds, abortCalls, abortIds, attemptsBegun, sawComplete,
                   fetchFailed, fetchedAll, bailed, quiet, fetched>>
    /\ UNCHANGED fileVars

\* One iteration of the polling loop up to its next request: the status
\* query, the reaction to its outcome, and the sleep that follows.
PollQuery ==
    /\ pc = "poll"
    /\ attempt < TRIES
    /\ \E d \in NetTicks, kind \in {"raise", "none", "str"} :
       \E s \in IF kind = "str" THEN Statuses ELSE {<<>>} :
          /\ lastCall' = Call("status", build_id, kind, s)
          /\ statusQueries' = statusQueries + 1
          /\ sawComplete' = (sawComplete \/ (kind = "str" /\ StartsWith(s, S_COMPLETE)))
          /\ bailed' = (kind = "str" /\ PollReaction(s) = "bail")
          /\ IF kind # "str"
             THEN \* except Exception: check_build_status raised, or
                  \* None.startswith raised AttributeError
                  /\ now' = Sleep(Elapse(now, d, LastRead), COOLDOWN_SEC)
                  /\ slept' = COOLDOWN_SEC
                  /\ attempt' = SlotAfterException(attempt)
                  /\ UNCHANGED <<pc, i, nap, dl, recorded, listedEnds>>
             ELSE LET reaction == PollReaction(s) IN
                  CASE reaction = "download" ->
                       /\ now' = Sleep(Elapse(now, d, LastRead), PRE_DOWNLOAD_SEC)
                       /\ slept' = PRE_DOWNLOAD_SEC
                       /\ pc' = "poll_dl"
                       /\ dl' = TryDownloadFrom(dl)
                       /\ UNCHANGED <<i, attempt, nap, recorded, listedEnds>>
                    [] reaction = "bail" ->
                       /\ now' = Elapse(now, d, LastRead)
                       /\ slept' = 0
                       /\ EndAttempt(tasks, TRUE)
                    [] reaction = "pending" ->
                       /\ now' = IF attempt + 1 < TRIES
                                 THEN Sleep(Elapse(now, d, LastRead), SLEEP_SEC)
                                 ELSE Elapse(now, d, LastRead)
                       /\ slept' = IF attempt + 1 < TRIES THEN SLEEP_SEC ELSE 0
                       /\ attempt' = NextSlot(attempt)
                       /\ UNCHANGED <<pc, i, nap, dl, recorded, listedEnds>>
    /\ UNCHANGED <<script, build_id, success, tasks, mutation_id, exit_status>>
    /\ UNCHANGED <<createCount, fetchStarted, sentIds, abortCalls, abortIds,
                   attemptsBegun, fetchFailed, fetchedAll, quiet, fetched>>
    /\ UNCHANGED fileVars

\* One iteration of try_download inside the polling loop's try block.
PollFetch ==
    /\ pc = "poll_dl"
    /\ \E d \in NetTicks, ok \in BOOLEAN :
          /\ FetchCall(d, ok)
          /\ IF ~ok
             THEN \* except Exception: sleep(60), next iteration
                  /\ now' = Sleep(Elapse(now, d, LastRead), COOLDOWN_SEC)
                  /\ slept' = COOLDOWN_SEC
                  /\ pc' = "poll"
                  /\ attempt' = SlotAfterException(attempt)
                  /\ dl' = TryDownloadFrom(dl)
                  /\ UNCHANGED <<i, nap, success, recorded, listedEnds>>
             ELSE /\ now' = Elapse(now, d, LastRead)
                  /\ slept' = 0
                  /\ IF dl + 1 < Len(TASKS[script])
                     THEN /\ dl' = dl + 1
                          /\ UNCHANGED <<pc, i, attempt, nap, success, recorded,
                                         listedEnds>>
                     ELSE \* success = True; break
                          /\ success' = TRUE
                          /\ EndAttempt(tasks, FALSE)
    /\ UNCHANGED <<script, build_id, tasks, mutation_id, exit_status>>
    /\ UNCHANGED <<statusQueries, createCount, sentIds, abortCalls, abortIds,
                   attemptsBegun, sawComplete, bailed, quiet>>
    /\ UNCHANGED fileVars

\* After the outer loop: exit(2) unless an attempt succeeded.
AfterLoop ==
    /\ pc = "after"
    /\ pc' = "exited"
    /\ exit_status' = IF ~success THEN Some(EXIT_FAILURE) ELSE Some(EXIT_OK)
    /\ UNCHANGED <<script, i, attempt, nap, dl, build_id, success, tasks,
                   mutation_id, now>>
    /\ UNCHANGED histVars
    /\ UNCHANGED fileVars

Next ==
    \/ Start
    \/ ResumeCheck
    \/ ResumeFetch
    \/ LoopHead
    \/ StopTasks
    \/ Submit
    \/ NapRound
    \/ NapBuild
    \/ PollExhausted
    \/ PollQuery
    \/ PollFetch
    \/ AfterLoop

Spec == Init /\ [][Next]_vars

\* The process is sequential and never waits for anything but a request or
\* a sleep: as long as every request returns or raises, and every sleep
\* ends, it takes its next step.
FairSpec == Spec /\ WF_vars(Next)

(***************************************************************************)
(* deployment/cirrus/build.py  (script = "deploy"): one submission, one    *)
(* polling loop, no retry and no exception handler.                        *)
(***************************************************************************)
\* TRIES = 20
Deploy_TRIES == 20
\* SLEEP_SEC = 30
Deploy_SLEEP_SEC == 30
\* SLEEP_MINUTES = 4
Deploy_SLEEP_MINUTES == 4
\* exit(1): too few arguments
Deploy_EXIT_USAGE == 1
\* exit(2): the create-build response has an errors field
Deploy_EXIT_ERRORS == 2
\* exit(3): the create-build response has no build id
Deploy_EXIT_NO_BUILD == 3
\* exit(4): the polling loop ran out
Deploy_EXIT_TIMEOUT == 4
\* len(sys.argv) with the script name, the key and the branch
Deploy_MIN_ARGC == 3
\* len(sys.argv) with all four arguments
Deploy_MAX_ARGC == 5

\* Mutant: a status that begins with "COMPLETE" counts as completed.
IsCompleted_Prefix(s) == StartsWith(s, S_COMPLETE)

\* status == "COMPLETED"
IsCompleted(s) == s = S_COMPLETED

\* exit(code)
DeployExit(code) ==
    /\ pc' = "exited"
    /\ exit_status' = Some(code)

DeployInit ==
    /\ script = "deploy"
    /\ pc = "d_start"
    /\ i = 0
    /\ attempt = 0
    /\ nap = 0
    /\ dl = 0
    /\ build_id = None
    /\ success = FALSE
    /\ tasks = Some(<<>>)
    /\ mutation_id = None
    /\ exit_status = None
    /\ now \in [sec : {0}, tick : 0..(TicksPerSec - 1)]
    /\ lastCall = NoCall
    /\ slept = 0
    /\ statusQueries = 0
    /\ createCount = 0
    /\ fetchStarted = FALSE
    /\ sentIds = {}
    /\ recorded = None
    /\ abortCalls = 0
    /\ abortIds = None
    /\ attemptsBegun = 0
    /\ listedEnds = 0
    /\ sawComplete = FALSE
    /\ fetchFailed = FALSE
    /\ fetchedAll = FALSE
    /\ bailed = FALSE
    /\ quiet = NoSleep
    /\ fetched = <<>>
    /\ args \in [argc : 1..Deploy_MAX_ARGC]
    /\ fs = <<>>
    /\ fs0 = <<>>
    /\ locals = <<>>

\* The variables deployment/cirrus/build.py does not have.
DeployUnused ==
    UNCHANGED <<script, i, nap, success, tasks, sentIds, recorded, abortCalls,
                abortIds, attemptsBegun, listedEnds, bailed, args, fs, fs0, locals>>

\* main(): the check of the number of arguments.
DeployStart ==
    /\ pc = "d_start"
    /\ IF args.argc < Deploy_MIN_ARGC
       THEN DeployExit(Deploy_EXIT_USAGE)
       ELSE pc' = "d_submit" /\ exit_status' = exit_status
    /\ UNCHANGED <<attempt, dl, build_id, mutation_id, now, lastCall, slept,
                   statusQueries, createCount, fetchStarted, sawComplete,
                   fetchFailed, fetchedAll, quiet, fetched>>
    /\ DeployUnused

\* The create-build request, the reaction to its response, and the sleep
\* before the polling loop.
DeploySubmit ==
    /\ pc = "d_submit"
    /\ \E d \in NetTicks, r \in {"raise", "errors", "nokey", "ok"} :
          /\ mutation_id' = Some(MakeMutationId(now))
          /\ createCount' = createCount + 1
          /\ lastCall' = Call("create", None, r, MakeMutationId(now))
          /\ CASE r = "raise" ->
                    /\ Crash
                    /\ now' = Elapse(now, d, IntTime(now))
                    /\ UNCHANGED <<build_id, slept, quiet>>
               [] r = "errors" ->
                    /\ DeployExit(Deploy_EXIT_ERRORS)
                    /\ now' = Elapse(now, d, IntTime(now))
                    /\ UNCHANGED <<build_id, slept, quiet>>
               [] r = "nokey" ->
                    /\ DeployExit(Deploy_EXIT_NO_BUILD)
                    /\ now' = Elapse(now, d, IntTime(now))
                    /\ UNCHANGED <<build_id, slept, quiet>>
               [] r = "ok" ->
                    /\ build_id' = Some(RemoteBuildId(createCount + 1))
                    /\ now' = Elapse(Elapse(now, d, IntTime(now)),
                                     60 * Deploy_SLEEP_MINUTES * TicksPerSec,
                                     IntTime(now))
                    /\ slept' = 60 * Deploy_SLEEP_MINUTES
                    /\ quiet' = OneMoreSleep(NoSleep, 60 * Deploy_SLEEP_MINUTES)
                    /\ pc' = "d_poll"
                    /\ exit_status' = exit_status
    /\ attempt' = 0
    /\ UNCHANGED <<dl, statusQueries, fetchStarted, sawComplete, fetchFailed,
                   fetchedAll, fetched>>
    /\ DeployUnused

\* One iteration of the polling loop up to its next request:
\* check_build_status (True only for the status "COMPLETED", False for
\* every other status, for an errors field and for a missing status) and
\* the sleep that follows.
DeployPoll ==
    /\ pc = "d_poll"
    /\ attempt < Deploy_TRIES
    /\ \E d \in NetTicks, kind \in {"raise", "none", "str"} :
       \E s \in IF kind = "str" THEN Statuses ELSE {<<>>} :
          /\ lastCall' = Call("status", build_id, kind, s)
          /\ statusQueries' = statusQueries + 1
          /\ sawComplete' = (sawComplete \/ (kind = "str" /\ StartsWith(s, S_COMPLETE)))
          /\ IF kind = "raise"
             THEN /\ Crash
                  /\ now' = Elapse(now, d, LastRead)
                  /\ slept' = 0
                  /\ UNCHANGED attempt
             ELSE IF kind = "str" /\ IsCompleted(s)
                  THEN /\ pc' = "d_dl"
                       /\ now' = Elapse(now, d, LastRead)
                       /\ slept' = 0
                       /\ UNCHANGED <<attempt, exit_status>>
                  ELSE /\ now' = IF attempt + 1 < Deploy_TRIES
                                 THEN Sleep(Elapse(now, d, LastRead), Deploy_SLEEP_SEC)
                                 ELSE Elapse(now, d, LastRead)
                       /\ slept' = IF attempt + 1 < Deploy_TRIES
                                   THEN Deploy_SLEEP_SEC ELSE 0
                       /\ attempt' = attempt + 1
                       /\ UNCHANGED <<pc, exit_status>>
    /\ dl' = 0
    /\ UNCHANGED <<build_id, mutation_id, createCount, fetchStarted, fetchFailed,
                   fetchedAll, quiet, fetched>>
    /\ DeployUnused

\* for attempt in range(TRIES) ran out: the else clause of the loop.
DeployExhausted ==
    /\ pc = "d_poll"
    /\ attempt >= Deploy_TRIES
    /\ DeployExit(Deploy_EXIT_TIMEOUT)
    /\ UNCHANGED <<attempt, dl, build_id, mutation_id, now, lastCall, slept,
                   statusQueries, createCount, fetchStarted, sawComplete,
                   fetchFailed, fetchedAll, quiet, fetched>>
    /\ DeployUnused

\* One urlretrieve of the download loop; exit(0) after the last one.
DeployFetch ==
    /\ pc = "d_dl"
    /\ \E d \in NetTicks, ok \in BOOLEAN :
          /\ FetchCall(d, ok)
          /\ now' = Elapse(now, d, LastRead)
          /\ slept' = 0
          /\ IF ~ok
             THEN Crash /\ dl' = dl
             ELSE IF dl + 1 < Len(TASKS[script])
                  THEN dl' = dl + 1 /\ UNCHANGED <<pc, exit_status>>
                  ELSE dl' = 0 /\ DeployExit(EXIT_OK)
    /\ UNCHANGED <<attempt, build_id, mutation_id, statusQueries, createCount,
                   sawComplete, quiet>>
    /\ DeployUnused

DeployNext ==
    \/ DeployStart
    \/ DeploySubmit
    \/ DeployPoll
    \/ DeployExhausted
    \/ DeployFetch

DeploySpec == DeployInit /\ [][DeployNext]_vars

(***************************************************************************)
(* scripts/schema/validator.py: validates a TOML file against a JSON       *)
(* schema.  A text is a tuple of one-character strings.  jsonschema_rs is  *)
(* kept to what the script needs of it: a schema text either cannot be     *)
(* compiled or allows a set of top-level keys, and a document is valid     *)
(* when all its keys are allowed.                                          *)
(***************************************************************************)
\* Lines a file is made of, at most MaxLines of them.
MaxLines == 2

L_key      == <<"a", "=", "1">>
L_hash_key == <<"#", "a", "=", "1">>
L_hash_2sp == <<"#", " ", " ", "b", "=", "1">>
L_note     == <<"#", " ", "x">>
L_hash     == <<"#">>
L_indented == <<" ", "b", "=", "1">>
L_bad      == <<"?">>

FileLines == { L_key, L_hash_key, L_hash_2sp, L_note, L_hash, L_indented, L_bad }

RECURSIVE JoinLines(_)
\* "\n".join(lines)
JoinLines(ls) ==
    IF ls = <<>> THEN <<>>
    ELSE IF Len(ls) = 1 THEN ls[1]
    ELSE ls[1] \o <<"\n">> \o JoinLines(Tail(ls))

FileTexts ==
    { JoinLines(ls) : ls \in UNION { [1..n -> FileLines] : n \in 0..MaxLines } }

\* Schema texts: one that is no schema, one that allows the key a only,
\* one that allows the keys a and b.
SchemaTexts == { "not a schema", "only a", "a and b" }

\* [a-zA-Z\[]
IsLetterOrBracket(c) ==
    c \in {UpperChars[k] : k \in 1..Len(UpperChars)}
          \cup {LowerChars[k] : k \in 1..Len(LowerChars)} \cup {"["}

\* \s
IsSpace(c) == c \in {" ", "\n", "\t"}

\* ^ with re.MULTILINE: the start of the text and the place after a newline.
AtLineStart(t, p) == p = 1 \/ t[p - 1] = "\n"

RECURSIVE SubHashLetter(_, _)
\* re.sub(r"^#([a-zA-Z\[])", r"\1", t, flags=re.MULTILINE), from place p on
SubHashLetter(t, p) ==
    IF p > Len(t) THEN <<>>
    ELSE IF /\ AtLineStart(t, p)
            /\ t[p] = "#"
            /\ p + 1 <= Len(t)
            /\ IsLetterOrBracket(t[p + 1])
         THEN <<t[p + 1]>> \o SubHashLetter(t, p + 2)
         ELSE <<t[p]>> \o SubHashLetter(t, p + 1)

RECURSIVE SpaceRunEnd(_, _)
\* The first place from p on that holds no white space.
SpaceRunEnd(t, p) ==
    IF p <= Len(t) /\ IsSpace(t[p]) THEN SpaceRunEnd(t, p + 1) ELSE p

RECURSIVE SubHashSpaces(_, _)
\* re.sub(r"^#(\s\s+)([a-zA-Z\[])", r"\2", t, flags=re.MULTILINE), from p on
SubHashSpaces(t, p) ==
    IF p > Len(t) THEN <<>>
    ELSE LET q == SpaceRunEnd(t, p + 1)
         IN  IF /\ AtLineStart(t, p)
                /\ t[p] = "#"
                /\ q - (p + 1) >= 2
                /\ q <= Len(t)
                /\ IsLetterOrBracket(t[q])
             THEN <<t[q]>> \o SubHashSpaces(t, q + 1)
             ELSE <<t[p]>> \o SubHashSpaces(t, p + 1)

\* The two substitutions of --uncomment.
Uncomment(t) == SubHashSpaces(SubHashLetter(t, 1), 1)

RECURSIVE SplitLines(_)
\* The lines of a text.
SplitLines(t) ==
    IF \A k \in 1..Len(t) : t[k] # "\n" THEN <<t>>
    ELSE LET k == CHOOSE j \in 1..Len(t) :
                      t[j] = "\n" /\ \A h \in 1..(j - 1) : t[h] # "\n"
         IN  <<SubSeq(t, 1, k - 1)>> \o SplitLines(SubSeq(t, k + 1, Len(t)))

RECURSIVE Strip(_)
\* A line without the white space around it.
Strip(l) ==
    IF l = <<>> THEN l
    ELSE IF IsSpace(l[1]) THEN Strip(Tail(l))
    ELSE IF IsSpace(l[Len(l)]) THEN Strip(SubSeq(l, 1, Len(l) - 1))
    ELSE l

\* What a line is to a TOML parser: blank, a comment, key = 1, or an error.
LineKind(l) ==
    LET x == Strip(l)
    IN  IF x = <<>> THEN "blank"
        ELSE IF x[1] = "#" THEN "comment"
        ELSE IF Len(x) = 3 /\ IsLetterOrBracket(x[1]) /\ x[1] # "["
                /\ x[2] = "=" /\ x[3] = "1"
             THEN "key"
             ELSE "error"

\* tomllib.loads(t): None for a TOMLDecodeError (a line that is no TOML, a
\* key defined twice), else the set of keys of the document.
TomlLoads(t) ==
    LET ls   == SplitLines(t)
        keys == {k \in 1..Len(ls) : LineKind(ls[k]) = "key"}
    IN  IF \E k \in 1..Len(ls) : LineKind(ls[k]) = "error" THEN None
        ELSE IF \E j, k \in keys : j # k /\ Strip(ls[j])[1] = Strip(ls[k])[1] THEN None
        ELSE Some({Strip(ls[k])[1] : k \in keys})

\* jsonschema_rs.validator_for(text): None when it raises, else the keys
\* the schema allows.
ValidatorFor(text) ==
    CASE text = "only a"  -> Some({"a"})
      [] text = "a and b" -> Some({"a", "b"})
      [] OTHER            -> None

\* validator.validate(doc) returns (TRUE) or raises ValidationError (FALSE).
Validates(validator, doc) == doc \subseteq validator

\* The variables of the Cirrus scripts, which a script that speaks to no
\* remote system leaves at their first values.
NoRemoteState ==
    /\ i = 0
    /\ attempt = 0
    /\ nap = 0
    /\ dl = 0
    /\ build_id = None
    /\ success = FALSE
    /\ tasks = Some(<<>>)
    /\ mutation_id = None
    /\ now = [sec |-> 0, tick |-> 0]
    /\ lastCall = NoCall
    /\ slept = 0
    /\ statusQueries = 0
    /\ createCount = 0
    /\ fetchStarted = FALSE
    /\ sentIds = {}
    /\ recorded = None
    /\ abortCalls = 0
    /\ abortIds = None
    /\ attemptsBegun = 0
    /\ listedEnds = 0
    /\ sawComplete = FALSE
    /\ fetchFailed = FALSE
    /\ fetchedAll = FALSE
    /\ bailed = FALSE
    /\ quiet = NoSleep
    /\ fetched = <<>>

NoRemoteStep ==
    UNCHANGED <<script, i, attempt, nap, dl, build_id, success, tasks,
                mutation_id, now, histVars>>

\* The decision of lines 60 to 75: the exit status after validate() returned
\* (valid) or raised ValidationError (not valid).
ValidateExit_IgnoreExpectation(valid, should_fail) ==
    IF valid THEN EXIT_OK ELSE 1

ValidateExit(valid, should_fail) ==
    IF valid
    THEN IF should_fail THEN 1 ELSE EXIT_OK
    ELSE IF should_fail THEN EXIT_OK ELSE 1

\* exit(code), exit() and the end of main() end the process; exit() and the
\* end of main() give the status 0.
ValidatorExit(code) ==
    /\ pc' = "exited"
    /\ exit_status' = Some(code)

ValidatorInit ==
    /\ script = "validator"
    /\ pc = "v_open"
    /\ exit_status = None
    /\ NoRemoteState
    /\ args \in [uncomment : BOOLEAN, should_fail : BOOLEAN]
    /\ fs \in [file : {None} \cup {Some(t) : t \in FileTexts}, schema : SchemaTexts]
    /\ fs0 = fs
    /\ locals = [validator |-> None, toml_str |-> None, outcome |-> "none"]

\* Line 41: both files are opened; a file that does not exist raises.
ValidatorOpen ==
    /\ pc = "v_open"
    /\ IF fs.file = None
       THEN Crash
       ELSE pc' = "v_create" /\ exit_status' = exit_status
    /\ UNCHANGED fileVars
    /\ NoRemoteStep

\* Lines 42 to 46: the validator is made from the schema; when that raises,
\* the bare except prints a message and calls exit().
ValidatorCreate ==
    /\ pc = "v_create"
    /\ LET v == ValidatorFor(fs.schema)
       IN  IF v = None
           THEN ValidatorExit(EXIT_OK) /\ locals' = locals
           ELSE /\ locals' = [locals EXCEPT !.validator = v]
                /\ pc' = "v_load"
                /\ exit_status' = exit_status
    /\ UNCHANGED <<args, fs, fs0>>
    /\ NoRemoteStep

\* Lines 48 to 58: the file is read, uncommented when asked, and parsed; a
\* TOMLDecodeError is not caught.
ValidatorLoad ==
    /\ pc = "v_load"
    /\ LET read_file == IF args.uncomment THEN Uncomment(fs.file[1]) ELSE fs.file[1]
           doc       == TomlLoads(read_file)
       IN  IF doc = None
           THEN Crash /\ locals' = locals
           ELSE /\ locals' = [locals EXCEPT !.toml_str = doc]
                /\ pc' = "v_validate"
                /\ exit_status' = exit_status
    /\ UNCHANGED <<args, fs, fs0>>
    /\ NoRemoteStep

\* Lines 60 to 75: the document is validated and the outcome is compared
\* with --should_fail.
ValidatorValidate ==
    /\ pc = "v_validate"
    /\ LET valid == Validates(locals.validator[1], locals.toml_str[1])
       IN  /\ locals' = [locals EXCEPT !.outcome = IF valid THEN "valid" ELSE "invalid"]
           /\ ValidatorExit(ValidateExit(valid, args.should_fail))
    /\ UNCHANGED <<args, fs, fs0>>
    /\ NoRemoteStep

ValidatorNext ==
    \/ ValidatorOpen
    \/ ValidatorCreate
    \/ ValidatorLoad
    \/ ValidatorValidate

ValidatorSpec == ValidatorInit /\ [][ValidatorNext]_vars

(***************************************************************************)
(* deployment/packager.py and scripts/packager.py: fill a package template *)
(* with the version and the hashes of the deployment files.  A digest is   *)
(* kept as the pair of the algorithm and the content it was taken of; a    *)
(* template is a sequence of pieces, a piece being plain text or a         *)
(* placeholder <<"$", name>>.                                              *)
(***************************************************************************)
T_sha512 == <<"s","h","a","5","1","2">>
T_sha256 == <<"s","h","a","2","5","6">>
T_sha1   == <<"s","h","a","1">>

\* Values of the hash type argument.
HashTypeArgs ==
    { T_sha512, T_sha256, T_sha1,
      <<"S","H","A","5","1","2">>, <<"S","h","a","2","5","6">>,
      <<"S","H","A","1">>, <<"m","d","5">>, <<"S","H","A","-","1">>,
      <<"s","h","a">>, <<>> }

\* scripts/packager.py takes one to three deployment files (args[5..7]),
\* deployment/packager.py takes one (args[1]).
MAX_DEPLOYMENT_FILES == 3

Packagers == {"deployment_packager", "scripts_packager"}

FileContents == {"x", "y"}

Placeholder(name) == <<"$", name>>

TemplateTexts ==
    { <<"text">>,
      <<Placeholder("version"), "text", Placeholder("hash")>>,
      <<Placeholder("version"), Placeholder("hash1"), Placeholder("hash2"),
        Placeholder("hash3")>> }

\* The if chain on str.lower(hash_type): the digest of the content, or None
\* where the chain ends in exit(1).
DeploymentHash_CaseSensitive(hash_type, content) ==
    IF hash_type \in {T_sha512, T_sha256, T_sha1}
    THEN Some(<<hash_type, content>>)
    ELSE None

DeploymentHash(hash_type, content) ==
    IF Lower(hash_type) = T_sha512 THEN Some(<<T_sha512, content>>)
    ELSE IF Lower(hash_type) = T_sha256 THEN Some(<<T_sha256, content>>)
    ELSE IF Lower(hash_type) = T_sha1 THEN Some(<<T_sha1, content>>)
    ELSE None

\* Template.safe_substitute(mapping): a placeholder whose name is a key of
\* the mapping is replaced by its value, any other piece is left as it is.
SafeSubstitute(template, mapping) ==
    [k \in 1..Len(template) |->
        IF /\ template[k] \in {Placeholder(n) : n \in DOMAIN mapping}
        THEN mapping[CHOOSE n \in DOMAIN mapping : template[k] = Placeholder(n)]
        ELSE template[k]]

\* The mapping each script substitutes.
Substitutes(hashes) ==
    IF script = "deployment_packager"
    THEN [n \in {"version", "hash"} |->
             IF n = "version" THEN args.version ELSE hashes[1]]
    ELSE [n \in {"version"} \cup
                {<<"hash1", "hash2", "hash3">>[k] : k \in 1..Len(hashes)} |->
             CASE n = "version" -> args.version
               [] n = "hash1"   -> hashes[1]
               [] n = "hash2"   -> hashes[2]
               [] n = "hash3"   -> hashes[3]]

PackagerInit ==
    /\ script \in Packagers
    /\ pc = "p_hash"
    /\ exit_status = None
    /\ NoRemoteState
    /\ \E n \in 1..(IF script = "scripts_packager" THEN MAX_DEPLOYMENT_FILES ELSE 1) :
           /\ args \in [hash_type : HashTypeArgs, version : {"1.0"}, files : {n}]
           /\ fs \in [deployment : [1..n -> {None} \cup {Some(c) : c \in FileContents}],
                      template   : {None} \cup {Some(t) : t \in TemplateTexts},
                      generated  : {None, Some(<<"old">>)}]
    /\ fs0 = fs
    /\ locals = [hashes |-> <<>>, template |-> None]

\* with open(deployment_file_path, "rb"), then the if chain on the hash type
\* (deployment/packager.py 21-32; scripts/packager.py 44-55 with get_hash),
\* for the next deployment file.
PackagerHash ==
    /\ pc = "p_hash"
    /\ LET k == Len(locals.hashes) + 1
       IN  IF fs.deployment[k] = None
           THEN Crash /\ locals' = locals
           ELSE LET h == DeploymentHash(args.hash_type, fs.deployment[k][1])
                IN  IF h = None
                    THEN /\ pc' = "exited"
                         /\ exit_status' = Some(1)
                         /\ locals' = locals
                    ELSE /\ locals' = [locals EXCEPT !.hashes = Append(@, h[1])]
                         /\ pc' = IF k = args.files THEN "p_template" ELSE "p_hash"
                         /\ exit_status' = exit_status
    /\ UNCHANGED <<args, fs, fs0>>
    /\ NoRemoteStep

\* The template is opened and read (deployment/packager.py 34-35;
\* scripts/packager.py 57-58).
PackagerTemplate ==
    /\ pc = "p_template"
    /\ IF fs.template = None
       THEN Crash /\ locals' = locals
       ELSE /\ locals' = [locals EXCEPT !.template = fs.template]
            /\ pc' = "p_write"
            /\ exit_status' = exit_status
    /\ UNCHANGED <<args, fs, fs0>>
    /\ NoRemoteStep

\* The substitution is made and written to the generated file, and the
\* script ends (deployment/packager.py 36-42; scripts/packager.py 60-75).
PackagerWrite ==
    /\ pc = "p_write"
    /\ fs' = [fs EXCEPT !.generated =
                 Some(SafeSubstitute(locals.template[1], Substitutes(locals.hashes)))]
    /\ pc' = "exited"
    /\ exit_status' = Some(EXIT_OK)
    /\ UNCHANGED <<args, fs0, locals>>
    /\ NoRemoteStep

PackagerNext ==
    \/ PackagerHash
    \/ PackagerTemplate
    \/ PackagerWrite

PackagerSpec == PackagerInit /\ [][PackagerNext]_vars

(***************************************************************************)
(* Properties.                                                             *)
(***************************************************************************)
\* The latest remote request was a status query of build b that returned
\* a string.
StatusReturned(b) ==
    /\ lastCall.op = "status"
    /\ lastCall.build = b
    /\ lastCall.kind = "str"

\* C1: a try_download is entered only directly after a status query of the
\* same build id returned a status that begins with "COMPLETE"; inside the
\* polling loop a poll slot is in use; and while a try_download runs, the
\* only requests since that query are its own fetches for that build id.
C1_DownloadOnlyAfterComplete ==
    pc \in {"resume_dl", "poll_dl"} =>
        /\ build_id # None
        /\ sawComplete
        /\ pc = "poll_dl" => attempt < 20
        /\ IF dl = 0
           THEN /\ StatusReturned(build_id)
                /\ StartsWith(lastCall.val, <<"C","O","M","P","L","E","T","E">>)
           ELSE /\ lastCall.op = "fetch"
                /\ lastCall.build = build_id
                /\ lastCall.kind = "ok"

\* C1 witness: release.py is about to call try_download in the polling loop.
C1_Witness ==
    /\ script = "release"
    /\ pc = "poll_dl"
    /\ dl = 0
    /\ lastCall.op = "status"

\* C2 (as claimed): in release.py a failed artifact fetch ends the run at
\* once with a non-zero exit status, and no request follows it.
C2_FetchFailureEndsRun ==
    (script = "release" /\ fetchFailed) =>
        /\ pc = "exited"
        /\ exit_status \notin {None, Some(0)}
        /\ lastCall.op = "fetch"
        /\ lastCall.kind = "raise"

\* C3 (as claimed): in release.py all create-build mutations of a run carry
\* different mutation ids.
C3_DistinctMutationIds ==
    script = "release" => Cardinality(sentIds) = createCount

\* C4: in release.py, when the create-build mutation of an attempt is about
\* to be sent and the previous attempt ended with a non-empty task id list,
\* exactly one batch-abort call was sent since the previous create-build
\* mutation, and it named exactly that list; otherwise none was sent.
C4_AbortBeforeResubmit ==
    (script = "release" /\ pc = "submit") =>
        IF recorded # None /\ Val(recorded) # <<>>
        THEN abortCalls = 1 /\ abortIds = recorded
        ELSE abortCalls = 0 /\ abortIds = None

\* C4 witness: the second attempt is about to submit after the first one
\* recorded two task ids, which were named in one batch-abort call.
C4_Witness ==
    /\ script = "release"
    /\ pc = "submit"
    /\ attemptsBegun = 2
    /\ recorded # None
    /\ Len(Val(recorded)) = 2
    /\ abortCalls = 1
    /\ lastCall.op = "abort"

\* C5: at most 20 status queries are sent for the build of one attempt.
C5_PollBound == statusQueries <= 20

\* C5 witness: the 20th status query of an attempt raised.
C5_Witness ==
    /\ statusQueries = 20
    /\ pc = "poll"
    /\ lastCall.op = "status"
    /\ lastCall.kind = "raise"

C7_ExitZeroOnlyAfterDownload ==
    (script = "release" /\ pc = "exited" /\ exit_status = Some(0)) =>
        (sawComplete /\ fetchedAll)

\* C8 (as claimed): in release.py a create-build request that raises ends
\* only the attempt: the process goes on with the outer loop.
C8_CreateFailureEndsAttemptOnly ==
    (script = "release" /\ lastCall.op = "create" /\ lastCall.kind = "raise") =>
        (pc = "loop" /\ exit_status = None)

ClassOf(s) ==
    LET complete == StartsWith(s, <<"C","O","M","P","L","E","T","E">>)
        aborted  == s = <<"A","B","O","R","T","E","D">>
        failed   == StartsWith(Lower(s), <<"f","a","i","l">>)
    IN  {c \in {"COMPLETED", "ABORTED", "FAILED", "PENDING"} :
            \/ c = "COMPLETED" /\ complete
            \/ c = "ABORTED" /\ aborted
            \/ c = "FAILED" /\ failed
            \/ c = "PENDING" /\ ~complete /\ ~aborted /\ ~failed}

\* C10: every step of the polling loop in which a status query returns a
\* string s reacts by the class of s alone, and s has exactly one class:
\* COMPLETED starts the download in the same attempt; ABORTED and FAILED
\* end the attempt without success; PENDING keeps the attempt and moves to
\* the next poll slot.  A download whose last fetch succeeds sets success
\* and ends the attempt, and the run then leaves the outer loop and exits
\* with status 0.
C10_ReactionByClass ==
    [][ /\ (pc = "poll" /\ statusQueries' = statusQueries + 1
                        /\ lastCall'.kind = "str") =>
            LET cls == ClassOf(lastCall'.val)
            IN  /\ Cardinality(cls) = 1
                /\ "COMPLETED" \in cls =>
                       (pc' = "poll_dl" /\ dl' = 0 /\ i' = i /\ attempt' = attempt)
                /\ ("ABORTED" \in cls \/ "FAILED" \in cls) =>
                       (pc' = "loop" /\ i' = i + 1 /\ ~success')
                /\ "PENDING" \in cls =>
                       (pc' = "poll" /\ i' = i /\ attempt' = attempt + 1)
        /\ (pc = "poll_dl" /\ lastCall'.kind = "ok"
                           /\ dl + 1 = Len(TASKS[script])) =>
               (success' /\ pc' = "loop")
        /\ (pc = "loop" /\ success) => pc' = "after"
        /\ (pc = "after" /\ success) => exit_status' = Some(0)
      ]_vars

\* C10 witness: the polling loop went on to the next slot after the status
\* "completed" (lower case), which is no COMPLETED status.
C10_Witness ==
    /\ script = "release"
    /\ pc = "poll"
    /\ attempt > 0
    /\ lastCall.op = "status"
    /\ lastCall.kind = "str"
    /\ lastCall.val = <<"c","o","m","p","l","e","t","e","d">>

\* C11 (as claimed): in the polling loop of release.py a status query for
\* which check_build_status returned None is followed by the 30-second
\* interval, not the 60-second cooldown, like a non-terminal status string.
C11_NoneStatusIsPending ==
    (/\ script = "release"
     /\ pc = "poll"
     /\ lastCall.op = "status"
     /\ lastCall.kind = "none") =>
        /\ slept # 60
        /\ attempt < 20 => slept = 30

\* C12 (as claimed): a step of the polling loop of release.py whose status
\* query raised stays in the polling loop on the same poll slot, so that
\* the raised query uses up none of the 20 slots.
C12_ExceptionKeepsPollSlot ==
    [][ (/\ script = "release"
         /\ pc = "poll"
         /\ statusQueries' = statusQueries + 1
         /\ lastCall'.kind = "raise") =>
            (pc' = "poll" /\ attempt' = attempt)
      ]_vars

\* C13: in the polling loop of release.py a step whose status query raised
\* keeps the process running and the attempt going, and sleeps the
\* 60-second cooldown; the step after it is, if a poll slot remains, a
\* status query for the same build, which starts the download when the
\* status begins with "COMPLETE" (otherwise the poll slots have run out);
\* a download whose last fetch succeeds sets success, and a run that
\* succeeded exits with status 0.
C13_QueryExceptionRecovers ==
    [][ /\ (/\ script = "release"
            /\ pc = "poll"
            /\ statusQueries' = statusQueries + 1
            /\ lastCall'.kind = "raise") =>
               /\ pc' = "poll"
               /\ exit_status' = None
               /\ i' = i
               /\ build_id' = build_id
               /\ slept' = 60
               /\ slept' > 30
        /\ (/\ script = "release"
            /\ pc = "poll"
            /\ lastCall.op = "status"
            /\ lastCall.kind = "raise") =>
               IF attempt < 20
               THEN /\ lastCall'.op = "status"
                    /\ lastCall'.build = lastCall.build
                    /\ statusQueries' = statusQueries + 1
                    /\ (/\ lastCall'.kind = "str"
                        /\ StartsWith(lastCall'.val, <<"C","O","M","P","L","E","T","E">>)) =>
                           (pc' = "poll_dl" /\ dl' = 0 /\ i' = i)
               ELSE pc' = "loop" /\ lastCall' = lastCall
        /\ (/\ script = "release"
            /\ pc = "poll_dl"
            /\ lastCall'.kind = "ok"
            /\ dl + 1 = Len(TASKS[script])) => success'
        /\ (success' /\ pc' = "exited") => exit_status' = Some(0)
      ]_vars

\* C13 witness: release.py is back at the head of the polling loop, with
\* poll slots left, after a status query raised and the cooldown was slept.
C13_Witness ==
    /\ script = "release"
    /\ pc = "poll"
    /\ lastCall.op = "status"
    /\ lastCall.kind = "raise"
    /\ slept = 60
    /\ attempt = 1
    /\ exit_status = None

\* C14 (as claimed): in release.py, once a status query returned "ABORTED"
\* or a status whose lower-cased form begins with "fail", and until the next
\* create-build mutation is sent: no status query and no fetch follows (the
\* only request that may follow is the batch-abort call), the process does
\* not crash, and the run ends only after 5 attempts, with code 2.
C14_TerminalStatusEndsAttemptOnly ==
    (script = "release" /\ bailed) =>
        /\ lastCall.op \in {"status", "abort"}
        /\ lastCall.op = "status" =>
               \/ lastCall.val = <<"A","B","O","R","T","E","D">>
               \/ StartsWith(Lower(lastCall.val), <<"f","a","i","l">>)
        /\ pc \in {"loop", "stop", "submit", "after", "exited"}
        /\ exit_status \in {None, Some(2)}
        /\ pc \in {"after", "exited"} => attemptsBegun = 5

\* C15: in a fresh run no status query of a newly created build is sent
\* before the whole quiescence delay was slept: from the create-build
\* response to the first status query release.py sleeps exactly 24 times 10
\* seconds and sends only task-list queries of the new build; build.py
\* sleeps once, 240 seconds, and sends no request.
C15_QuiescenceBeforeFirstQuery ==
    LET full == IF script = "release" THEN [n |-> 24, secs |-> 240]
                                      ELSE [n |-> 1, secs |-> 240]
    IN  /\ (createCount > 0 /\ (statusQueries > 0 \/ lastCall.op = "status")) =>
               quiet = full
        /\ pc = "nap" =>
               /\ statusQueries = 0
               /\ lastCall.op \in {"create", "tasks"}
               /\ script = "release" => quiet = [n |-> nap, secs |-> 10 * nap]
               /\ script = "build" => quiet = [n |-> 0, secs |-> 0]
        /\ (pc = "poll" /\ createCount > 0 /\ statusQueries = 0) =>
               /\ quiet = full
               /\ lastCall.op \in {"create", "tasks"}
        /\ (createCount > 0 /\ lastCall.op = "tasks") =>
               (script = "release" /\ lastCall.build = build_id)
        /\ (createCount > 0 /\ lastCall.op = "create" /\ lastCall.kind = "ok"
               /\ script = "build") => pc \in {"nap", "poll"}

\* C15 witness: release.py has sent the first status query of a new build,
\* after 24 sleeps and task-list queries.
C15_Witness ==
    /\ script = "release"
    /\ createCount = 1
    /\ statusQueries = 1
    /\ lastCall.op = "status"
    /\ Truthy(tasks)
    /\ quiet = [n |-> 24, secs |-> 240]

C17_AbortOutcomeNotFatal ==
    (script = "release" /\ lastCall.op = "abort") =>
        (pc = "submit" /\ exit_status = None)

\* C18 (as claimed): release.py started with a build id sends no
\* create-build mutation and goes on polling that build: after a status
\* that is neither COMPLETED, ABORTED nor FAILED, and with poll budget left,
\* the process is still running, to query the status of the build again.
C18_ResumePollsUntilTerminal ==
    (/\ script = "release"
     /\ build_id = Some(ArgBuildId)
     /\ lastCall.op = "status"
     /\ lastCall.kind = "str"
     /\ ClassOf(lastCall.val) = {"PENDING"}
     /\ statusQueries < 20) =>
        /\ createCount = 0
        /\ pc # "exited"
        /\ exit_status = None

\* C19: a fresh run whose first submission succeeded, whose status queries
\* brought a status beginning with "COMPLETE" within the 20 poll slots of
\* the first attempt, and in which every fetch succeeded, has sent exactly
\* one create-build mutation and has fetched every (task, file) entry of
\* TASKS exactly once, in list order, from the URL made of the id of the
\* created build, the task name and the file name; it exits with status 0.
C19_HappyPath ==
    LET id   == <<"build", 1>>
        urls == [k \in 1..Len(TASKS[script]) |->
                    <<"https://api.cirrus-ci.com/v1/artifact/build/", id, "/",
                      TASKS[script][k][1], "/binaries/", TASKS[script][k][2]>>]
    IN  (/\ createCount > 0
         /\ attemptsBegun = 1
         /\ sawComplete
         /\ ~fetchFailed) =>
            /\ createCount = 1
            /\ statusQueries <= 20
            /\ build_id = Some(id)
            /\ pc \in {"poll_dl", "loop", "after", "exited"}
            /\ pc = "poll_dl" => fetched = SubSeq(urls, 1, dl)
            /\ pc # "poll_dl" => (fetched = urls /\ success)
            /\ pc = "exited" => exit_status = Some(0)

\* C19 witness: release.py has exited after such a run, in which the third
\* status query brought the status that began with "COMPLETE".
C19_Witness ==
    /\ script = "release"
    /\ createCount = 1
    /\ attemptsBegun = 1
    /\ statusQueries = 3
    /\ attempt = 0
    /\ sawComplete
    /\ ~fetchFailed
    /\ Len(fetched) = 1
    /\ pc = "exited"
    /\ exit_status = Some(0)

\* C20: in a fresh run of release.py every status query, task-list query
\* and fetch refers to the build created by the latest create-build
\* mutation sent, never to the build of an earlier attempt.
C20_OneLiveHandle ==
    (/\ script = "release"
     /\ createCount > 0
     /\ lastCall.op \in {"status", "tasks", "fetch"}) =>
        /\ lastCall.build = Some(<<"build", createCount>>)
        /\ build_id = lastCall.build

\* C20 witness: in its second attempt release.py asks for the tasks of the
\* second build, after it polled the first build in the first attempt.
C20_Witness ==
    /\ script = "release"
    /\ createCount = 2
    /\ pc = "nap"
    /\ sawComplete
    /\ lastCall.op = "tasks"
    /\ lastCall.build = Some(<<"build", 2>>)

\* How far a run is from its end: every step of the program lowers it.
\* 200 is more than the steps of one attempt: the loop head, the
\* batch-abort call, the submission, 24 nap rounds, 20 poll slots of at
\* most 1 + 3 requests each.
C21_Rank ==
    CASE pc = "exited"    -> 0
      [] pc = "after"     -> 1
      [] pc = "resume_dl" -> 9 - dl
      [] pc = "resume"    -> 10
      [] pc = "start"     -> 5 * 200 + 200
      [] pc = "loop"      -> (5 - i) * 200 + 199
      [] pc = "stop"      -> (5 - i) * 200 + 198
      [] pc = "submit"    -> (5 - i) * 200 + 197
      [] pc = "nap"       -> (5 - i) * 200 + 196 - nap
      [] pc = "poll"      -> (5 - i) * 200 + 170 - 5 * attempt
      [] pc = "poll_dl"   -> (5 - i) * 200 + 170 - 5 * attempt - 1 - dl

C22_FetchExceptionRecovers ==
    [][ /\ (/\ pc = "poll_dl"
            /\ lastCall'.op = "fetch"
            /\ lastCall'.kind = "raise") =>
               /\ ~success'
               /\ exit_status' = None
               /\ pc' = "poll"
               /\ slept' = 60
               /\ attempt' = attempt + 1
               /\ dl' = 0
               /\ i' = i
               /\ build_id' = build_id
        /\ (/\ pc = "poll"
            /\ lastCall.op = "fetch"
            /\ lastCall.kind = "raise") =>
               IF attempt < 20
               THEN /\ lastCall'.op = "status"
                    /\ lastCall'.build = lastCall.build
                    /\ (/\ lastCall'.kind = "str"
                        /\ StartsWith(lastCall'.val, <<"C","O","M","P","L","E","T","E">>)) =>
                           (pc' = "poll_dl" /\ dl' = 0)
               ELSE /\ pc' = "loop"
                    /\ i' = i + 1
                    /\ ~success'
                    /\ lastCall' = lastCall
        /\ (pc = "poll_dl" /\ dl = 0 /\ lastCall'.op = "fetch") =>
               (lastCall'.val = TASKS[script][1] /\ lastCall'.build = build_id)
        /\ (pc = "loop" /\ ~success /\ i < 5) => pc' \in {"stop", "submit"}
      ]_vars

\* C22 witness: release.py starts its download a second time: after a
\* fetch of the attempt raised, a status began with "COMPLETE" again.
C22_Witness ==
    /\ script = "release"
    /\ pc = "poll_dl"
    /\ dl = 0
    /\ fetchFailed
    /\ attempt > 0
    /\ i = 0
    /\ lastCall.op = "status"

\* C23: in release.py every batch-abort call names the task ids recorded
\* in the attempt just before it, which are tasks of the build the latest
\* create-build mutation created, and it is the only such call between two
\* create-build mutations; every create-build mutation is sent with the
\* list cleared; and an attempt whose predecessor ended at its submission
\* or recorded no task ids begins without a batch-abort call.
C23_AbortOnlyPreviousTasks ==
    script = "release" =>
        /\ lastCall.op = "abort" =>
               /\ abortCalls = 1
               /\ attemptsBegun = createCount + 1
               /\ lastCall.val # <<>>
               /\ \A k \in 1..Len(lastCall.val) :
                      /\ lastCall.val[k][1] = "task"
                      /\ lastCall.val[k][2] = createCount
               /\ recorded = Some(lastCall.val)
        /\ lastCall.op = "create" => tasks = Some(<<>>)
        /\ pc = "stop" =>
               (recorded # None /\ Val(recorded) # <<>> /\ abortCalls = 0)
        /\ (pc = "submit" /\ (recorded = None \/ recorded = Some(<<>>))) =>
               (abortCalls = 0 /\ lastCall.op # "abort")

\* C23 witness: the third attempt of release.py is about to submit without
\* a batch-abort call: the second attempt, which followed one that polled
\* its build, ended at its submission.
C23_Witness ==
    /\ script = "release"
    /\ pc = "submit"
    /\ attemptsBegun = 3
    /\ createCount = 2
    /\ sawComplete
    /\ lastCall.op = "create"
    /\ lastCall.kind = "errors"
    /\ recorded = Some(<<>>)
    /\ abortCalls = 0

C25_DeployOnlyCompleted ==
    LET urls == [k \in 1..2 |->
                    <<"https://api.cirrus-ci.com/v1/artifact/build/", <<"build", 1>>, "/",
                      TASKS.deploy[k][1], "/binaries/", TASKS.deploy[k][2]>>]
        returned  == lastCall.op = "status" /\ lastCall.kind # "raise"
        completed == /\ lastCall.kind = "str"
                     /\ lastCall.val = <<"C","O","M","P","L","E","T","E","D">>
    IN  script = "deploy" =>
            /\ createCount <= 1
            /\ statusQueries <= 20
            /\ (returned /\ completed) => (pc = "d_dl" /\ dl = 0)
            /\ (returned /\ ~completed) =>
                   /\ ~fetchStarted
                   /\ attempt = statusQueries
                   /\ IF statusQueries < 20
                      THEN pc = "d_poll" /\ slept = 30 /\ exit_status = None
                      ELSE pc \in {"d_poll", "exited"} /\ slept = 0
                   /\ pc = "exited" => exit_status = Some(4)
            /\ pc = "d_dl" =>
                   (fetched = SubSeq(urls, 1, dl) /\ build_id = Some(<<"build", 1>>))
            /\ exit_status = Some(0) =>
                   (fetched = urls /\ lastCall.op = "fetch" /\ lastCall.kind = "ok")
            /\ exit_status = Some(4) =>
                   (statusQueries = 20 /\ returned /\ ~completed)
            /\ (pc = "exited" /\ build_id # None /\ lastCall.kind # "raise") =>
                   exit_status \in {Some(0), Some(4)}

\* C25 witness: deployment/cirrus/build.py has exited with code 4 after 20
\* status queries, the last of which returned "COMPLETE".
C25_Witness ==
    /\ script = "deploy"
    /\ pc = "exited"
    /\ exit_status = Some(4)
    /\ statusQueries = 20
    /\ lastCall.kind = "str"
    /\ lastCall.val = <<"C","O","M","P","L","E","T","E">>

\* C26: once a validator was created from the schema and the parsed file was
\* handed to it, the exit status is 1 exactly when the validation outcome
\* disagrees with --should_fail (valid while a failure was expected, invalid
\* while none was expected), and 0 in the two cases where they agree.
C26_ExitTellsDisagreement ==
    (pc = "exited" /\ locals.validator # None /\ locals.toml_str # None) =>
        /\ locals.outcome \in {"valid", "invalid"}
        /\ exit_status \in {Some(0), Some(1)}
        /\ exit_status = Some(1) <=>
               \/ locals.outcome = "valid" /\ args.should_fail
               \/ locals.outcome = "invalid" /\ ~args.should_fail

\* An uncommented file the schema does not allow was checked with
\* --should_fail and the script ended with the status 0.
C26_Witness ==
    /\ script = "validator"
    /\ pc = "exited"
    /\ locals.outcome = "invalid"
    /\ args.should_fail
    /\ args.uncomment
    /\ exit_status = Some(0)

\* C27: when no validator can be made from the schema, the script does not
\* report success: it ends with the status 0 only after a validation whose
\* outcome agreed with --should_fail.
C27_NoSuccessWithoutValidation ==
    (script = "validator" /\ pc = "exited" /\ exit_status = Some(0)) =>
        \/ locals.outcome = "valid" /\ ~args.should_fail
        \/ locals.outcome = "invalid" /\ args.should_fail
\* C28: both packager scripts compare the lower-cased hash type with sha512,
\* sha256 and sha1, so a supported type is accepted in any case of letters
\* and, when the files can be read, the script writes the generated file and
\* ends with status 0; for any other hash type the template is never read,
\* the generated file stays as it was (absent or with its old content), and
\* the script ends with status 1.
C28_UnsupportedHashExits ==
    LET supported == Lower(args.hash_type) \in
                         { <<"s","h","a","5","1","2">>,
                           <<"s","h","a","2","5","6">>,
                           <<"s","h","a","1">> }
    IN  script \in {"deployment_packager", "scripts_packager"} =>
            /\ ~supported =>
                   /\ pc \in {"p_hash", "exited"}
                   /\ locals.template = None
                   /\ fs.generated = fs0.generated
                   /\ pc = "exited" => exit_status = Some(1)
            /\ ( /\ supported
                 /\ pc = "exited"
                 /\ fs0.template # None
                 /\ \A k \in DOMAIN fs0.deployment : fs0.deployment[k] # None ) =>
                   /\ exit_status = Some(0)
                   /\ fs.generated # None

\* scripts/packager.py was given the hash type md5, two readable deployment
\* files, a template and an older generated file, and has ended.
C28_Witness ==
    /\ script = "scripts_packager"
    /\ pc = "exited"
    /\ args.hash_type = <<"m","d","5">>
    /\ args.files = 2
    /\ \A k \in 1..2 : fs0.deployment[k] # None
    /\ fs0.template # None
    /\ fs0.generated = Some(<<"old">>)
    /\ exit_status = Some(1)
=============================================================================
